---- MODULE Spec2Model ----
(***************************************************************************)
(* Model of the periodic-solution engine of solenoid_optics,               *)
(* src/evolve.py, class BetaFinder, and of the coil fitter,                *)
(* src/runners/coil_fitter.py, class CoilFitter with the module-level      *)
(* my_self and score_function.                                             *)
(*                                                                         *)
(* Numbers.  The program computes in IEEE doubles.  A double is kept here  *)
(* as a record [k, v, s]: k is "fin", "inf" or "nan"; for a finite value   *)
(* v is the value in units of 1/Scale (fixed point) and s is its sign,     *)
(* which a zero keeps (+0.0 and -0.0 divide differently).  Threshold       *)
(* comparisons are made exactly (cross-multiplied), arithmetic rounds      *)
(* toward zero to the 1/Scale grid.                                        *)
(*                                                                         *)
(* The period, the z positions computed from it and the scan values of the *)
(* coil fitter are kept as binary floating-point numbers [m, e] = m*2^e    *)
(* with a significand of MantBits bits and round-to-nearest-even (a double *)
(* has 53 bits), because propagate_beta and get_scan_values add, multiply  *)
(* and divide them.                                                        *)
(*                                                                         *)
(* A transfer matrix is kept as four integers in units of 1/MatUnit.       *)
(* An angle returned by math.atan2 is kept by its place on the circle:     *)
(* v = 2j is exactly j*pi/2 (j = -1, 0, 1, 2) and an odd v is the open     *)
(* quadrant between v-1 and v+1, so v ranges over -3 .. 4 for (-pi, pi].   *)
(***************************************************************************)
EXTENDS Integers, Naturals, Sequences, FiniteSets, TLC

\* ------------------------------------------------------------------ bounds
\* fixed-point resolution of a finite double: units of 1/Scale
Scale == 100
\* matrix entries are multiples of 1/MatUnit
MatUnit == 2
\* matrix entries range over -MaxEntry .. MaxEntry (in units of 1/MatUnit)
MaxEntry == 3
\* |det(M) - 1| of an integrated matrix, in units of 1/MatUnit^2
DetTol == 1
\* significand bits of the binary floating-point numbers
MantBits == 4
\* periods 1 + 0.75*j m, j in 0 .. MaxPeriodIdx; momenta -1 and
\* 1 .. MaxMomentum [GeV/c]
MaxPeriodIdx == 1
MaxMomentum == 1
\* propagate_beta is asked for 2 .. MaxPoints points
MaxPoints == 4
\* number of operations one BetaFinder is asked for
MaxOps == 2
\* steps the model's integrator takes between two output points
OdeSteps == 2
\* objective evaluations of one SIMPLEX run
MaxEvals == 1
\* the minimizer tries 3.9 m and 20, 40, ... 20*MaxBetaIdx m
MaxBetaIdx == 1

\* a CoilFitter has 1 .. MaxCoils coils and 1 .. MaxFitParams fit parameters
MaxCoils == 2
MaxFitParams == 2
\* the minimizer gives a parameter a value of 1 .. MaxParValue; a plot limit
\* is one of 0 .. MaxParValue
MaxParValue == 2
\* a scan has 1 .. MaxSteps steps between ends of 0, 1/4 .. MaxScanEnd/4
MaxSteps == 4
MaxScanEnd == 4

\* ------------------------------------------------------------ arithmetic
Abs(x) == IF x < 0 THEN -x ELSE x
Sgn(x) == IF x < 0 THEN -1 ELSE IF x = 0 THEN 0 ELSE 1

\* integer quotient rounded toward zero
TruncDiv(a, b) == Sgn(a) * Sgn(b) * (Abs(a) \div Abs(b))

\* a*b/d rounded toward zero, the product taken in two parts to stay in range
MulDiv(a, b, d) ==
  LET x == Abs(a)
      y == Abs(b)
  IN Sgn(a) * Sgn(b) * (x * (y \div d) + (x * (y % d)) \div d)

\* floor of the square root of a natural number, by bisection of lo .. hi
RECURSIVE SqrtBetween(_, _, _)
SqrtBetween(n, lo, hi) ==
  IF lo >= hi THEN lo
  ELSE LET mid == (lo + hi + 1) \div 2
       IN IF mid * mid <= n THEN SqrtBetween(n, mid, hi) ELSE SqrtBetween(n, lo, mid - 1)

ISqrt(n) == SqrtBetween(n, 0, n)

\* ------------------------------------------- binary floating-point numbers
RECURSIVE Pow2(_)
Pow2(n) == IF n = 0 THEN 1 ELSE 2 * Pow2(n - 1)

BFZero == [m |-> 0, e |-> 0]

\* num/den > 0 rounded to MantBits significant bits, ties to even
RoundBF(num, den) ==
  IF num = 0 THEN BFZero
  ELSE LET up(e) == IF e >= 0 THEN Pow2(e) ELSE 1
           dn(e) == IF e >= 0 THEN 1 ELSE Pow2(-e)
           e0 == CHOOSE e \in -(2 * MantBits)..(2 * MantBits) :
                   /\ num * dn(e) >= Pow2(MantBits - 1) * den * up(e)
                   /\ num * dn(e) < Pow2(MantBits) * den * up(e)
           n == num * dn(e0)
           d == den * up(e0)
           fl == n \div d
           r2 == 2 * (n % d)
           m0 == IF r2 > d \/ (r2 = d /\ fl % 2 = 1) THEN fl + 1 ELSE fl
       IN IF m0 = Pow2(MantBits) THEN [m |-> Pow2(MantBits - 1), e |-> e0 + 1]
          ELSE [m |-> m0, e |-> e0]

\* x*k and x/k for a number x >= 0 and an integer k > 0 (exact as a float)
BFMulInt(x, k) ==
  LET r == RoundBF(x.m * k, 1) IN IF r.m = 0 THEN BFZero ELSE [m |-> r.m, e |-> r.e + x.e]

BFDivInt(x, k) ==
  LET r == RoundBF(x.m, k) IN IF r.m = 0 THEN BFZero ELSE [m |-> r.m, e |-> r.e + x.e]

\* a < b
BFLess(a, b) ==
  LET lo == IF a.e < b.e THEN a.e ELSE b.e
  IN a.m * Pow2(a.e - lo) < b.m * Pow2(b.e - lo)

\* the value of x in units of 1/Scale, rounded toward zero
BFToFix(x) ==
  IF x.e >= 0 THEN x.m * Pow2(x.e) * Scale ELSE (x.m * Scale) \div Pow2(-x.e)

\* -x, and an integer n as a float
BFNeg(x) == [m |-> -x.m, e |-> x.e]

BFOfInt(n) == IF n < 0 THEN BFNeg(RoundBF(-n, 1)) ELSE RoundBF(n, 1)

\* a+b, a-b and a*b, each rounded once as the machine does
BFAdd(a, b) ==
  LET lo == IF a.e < b.e THEN a.e ELSE b.e
      r == BFOfInt(a.m * Pow2(a.e - lo) + b.m * Pow2(b.e - lo))
  IN IF r.m = 0 THEN BFZero ELSE [m |-> r.m, e |-> r.e + lo]

BFSub(a, b) == BFAdd(a, BFNeg(b))

BFMul(a, b) ==
  LET r == BFOfInt(a.m * b.m)
  IN IF r.m = 0 THEN BFZero ELSE [m |-> r.m, e |-> r.e + a.e + b.e]

\* x*0.5 and |x| are exact
BFHalf(x) == IF x.m = 0 THEN BFZero ELSE [m |-> x.m, e |-> x.e - 1]

BFAbs(x) == [m |-> Abs(x.m), e |-> x.e]

\* ---------------------------------------------------------------- doubles
Fin(x) == [k |-> "fin", v |-> x, s |-> IF x < 0 THEN -1 ELSE 1]
Zero(sg) == [k |-> "fin", v |-> 0, s |-> sg]
Inf(sg) == [k |-> "inf", v |-> 0, s |-> sg]
NaN == [k |-> "nan", v |-> 0, s |-> 1]

IsFinite(a) == a.k = "fin"
IsNaN(a) == a.k = "nan"
IsZero(a) == a.k = "fin" /\ a.v = 0

\* a finite double with the sign given apart, so that a zero keeps it
Signed(x, sg) == IF x = 0 THEN Zero(sg) ELSE Fin(x)

\* The operands x, y of an operation are evaluated once, to the values a, b
\* it computes with.
FNeg(x) ==
  CHOOSE r \in {IF a.k = "nan" THEN NaN ELSE [k |-> a.k, v |-> -a.v, s |-> -a.s] :
                  a \in {x}} : TRUE

FAbs(x) ==
  CHOOSE r \in {IF a.k = "nan" THEN NaN ELSE [k |-> a.k, v |-> Abs(a.v), s |-> 1] :
                  a \in {x}} : TRUE

FMul(x, y) ==
  LET Product(a, b) ==
        IF a.k = "nan" \/ b.k = "nan" THEN NaN
        ELSE IF a.k = "inf" \/ b.k = "inf"
             THEN IF IsZero(a) \/ IsZero(b) THEN NaN ELSE Inf(a.s * b.s)
             ELSE Signed(MulDiv(a.v, b.v, Scale), a.s * b.s)
  IN CHOOSE r \in {Product(a, b) : a \in {x}, b \in {y}} : TRUE

FDiv(x, y) ==
  LET Quotient(a, b) ==
        IF a.k = "nan" \/ b.k = "nan" THEN NaN
        ELSE IF a.k = "inf" THEN (IF b.k = "inf" THEN NaN ELSE Inf(a.s * b.s))
        ELSE IF b.k = "inf" THEN Zero(a.s * b.s)
        ELSE IF b.v = 0 THEN (IF a.v = 0 THEN NaN ELSE Inf(a.s * b.s))
        ELSE Signed(TruncDiv(a.v * Scale, b.v), a.s * b.s)
  IN CHOOSE r \in {Quotient(a, b) : a \in {x}, b \in {y}} : TRUE

FAdd(x, y) ==
  LET Sum(a, b) ==
        IF a.k = "nan" \/ b.k = "nan" THEN NaN
        ELSE IF a.k = "inf" /\ b.k = "inf" THEN (IF a.s = b.s THEN a ELSE NaN)
        ELSE IF a.k = "inf" THEN a
        ELSE IF b.k = "inf" THEN b
        ELSE Signed(a.v + b.v, IF a.s = -1 /\ b.s = -1 THEN -1 ELSE 1)
  IN CHOOSE r \in {Sum(a, b) : a \in {x}, b \in {y}} : TRUE

FSub(a, b) == FAdd(a, FNeg(b))

\* a > b, a >= b and a == b on doubles: every comparison with a NaN is false
FGt(a, b) ==
  /\ a.k # "nan" /\ b.k # "nan"
  /\ \/ a.k = "inf" /\ a.s = 1 /\ ~(b.k = "inf" /\ b.s = 1)
     \/ b.k = "inf" /\ b.s = -1 /\ ~(a.k = "inf" /\ a.s = -1)
     \/ a.k = "fin" /\ b.k = "fin" /\ a.v > b.v

FEq(a, b) ==
  /\ a.k # "nan" /\ b.k # "nan"
  /\ a.k = b.k
  /\ IF a.k = "inf" THEN a.s = b.s ELSE a.v = b.v

FGe(a, b) == FGt(a, b) \/ FEq(a, b)

\* a binary floating-point number as a double of the 1/Scale grid
FromBF(x) == Fin(BFToFix(x))

\* a matrix quantity in units of 1/(2*MatUnit), as a double
FromMat2(n) == Fin(TruncDiv(n * Scale, 2 * MatUnit))

\* x**0.5 of a numpy double x = d/(2*MatUnit)^2: NaN for a negative x
FSqrtMat4(d) ==
  IF d < 0 THEN NaN ELSE Fin(ISqrt((d * Scale * Scale) \div (4 * MatUnit * MatUnit)))

\* numpy.sign
NumpySign(x) == Sgn(x)

\* math.atan2(y, x), y a finite number given by its sign, x a double; the
\* result is the place on the circle (see the head of the module)
MathAtan2(ysgn, x) ==
  IF x.k = "nan" THEN NaN
  ELSE IF x.k = "fin" /\ x.v = 0
       THEN (IF ysgn > 0 THEN Fin(2)
             ELSE IF ysgn < 0 THEN Fin(-2)
             ELSE IF x.s = 1 THEN Fin(0) ELSE Fin(4))
  ELSE IF x.s = 1
       THEN (IF x.k = "inf" THEN Zero(IF ysgn < 0 THEN -1 ELSE 1) ELSE Fin(ysgn))
  ELSE (IF ysgn > 0 THEN (IF x.k = "inf" THEN Fin(4) ELSE Fin(3))
        ELSE IF ysgn < 0 THEN (IF x.k = "inf" THEN Fin(-4) ELSE Fin(-3))
        ELSE Fin(4))

\* ------------------------------------------------------------------ state
VARIABLES
  field_model,   \* self.field_model: [bz, period], a uniform on-axis field
  period,        \* self.period [m], a binary floating-point number
  momentum,      \* self.momentum [GeV/c]
  hmax,          \* self.hmax, a binary floating-point number of 1/HmaxDen m
  verbose,       \* self.verbose
  q,             \* self.q
  op,            \* the operation running or last run
  args,          \* the arguments it was called with
  pc,            \* the place the running operation has reached
  nops,          \* operations started so far
  m2d,           \* get_beta_periodic: the one-period matrix <<m00, m01, m10, m11>>
  larmor_angle,  \* get_beta_periodic: matrix[4]
  cosmu,         \* get_beta_periodic: cosmu, in units of 1/(2*MatUnit)
  sinmu,         \* get_beta_periodic: sinmu, a double
  ret,           \* the value the last operation returned
  nodeint,       \* calls of scipy.integrate.odeint since the operation started
  odeint_opts,   \* hmax and mxstep of the last of those calls: <<[hmax, mxstep]>>
  nsqrt,         \* square roots evaluated since the operation started
  ndiv,          \* divisions by sinmu evaluated since the operation started
  minuit,        \* self.minuit: 0 while the attribute is not set, else the
                 \* number of the ROOT.TMinuit it refers to
  mn,            \* the state of that minimizer: [par, err, lo, hi, fcn, evals],
                 \* evals counting the evaluations of the running command
  nsimplex,      \* SIMPLEX commands run since the operation started
  evolve_call,   \* arguments of the last call of evolve: <<beta0, dbetadz0, zout>>
  score,         \* the value last written to score[0]
  fcn_ret,       \* the value score_function last returned
  coil_list,     \* CoilFitter.coil_list: per coil, the value of each attribute
  fit_params,    \* CoilFitter.fit_params: a list of [name, seed, is_fixed]
  output_dir,    \* CoilFitter.output_dir: "unset" until the caller assigns it
  iteration,     \* CoilFitter.iteration
  cf_minuit,     \* CoilFitter.minuit: [id, par, fcn, evals]; par maps a parameter
                 \* index to [name, value, is_fixed, coil], coil being the coil
                 \* of the loop pass that defined it
  my_self,       \* the module-level my_self of coil_fitter.py: "None" or "self"
  param_reads    \* the GetParameter calls of the last set_magnets, in order:
                 \* [coil, name, index]

vars == <<field_model, period, momentum, hmax, verbose, q, op, args, pc, nops,
          m2d, larmor_angle, cosmu, sinmu, ret, nodeint, odeint_opts, nsqrt, ndiv,
          minuit, mn, nsimplex, evolve_call, score, fcn_ret,
          coil_list, fit_params, output_dir, iteration, cf_minuit, my_self,
          param_reads>>

finder == <<field_model, period, momentum, hmax, verbose, q>>

\* locals of get_beta_periodic
gbp_locals == <<m2d, larmor_angle, cosmu, sinmu, nsqrt, ndiv>>

\* the minimizer and what score_function leaves behind
fit_state == <<minuit, mn, nsimplex, evolve_call, score, fcn_ret>>

\* the CoilFitter, its minimizer and the module-level handle
coil_fitter == <<coil_list, fit_params, output_dir, iteration, cf_minuit, my_self,
                 param_reads>>

\* self.hmax = self.period*1e-4: hmax is kept as a multiple of 1/HmaxDen
HmaxDen == 10000

\* max_beta0 = 100.0, the upper limit get_beta_periodic_minuit gives parameter 0
MaxBeta0 == 100

\* the degenerate result (0.0, 0.0, 0.0)
Sentinel == <<Fin(0), Fin(0), Fin(0)>>

IsSentinel(r) == Len(r) = 3 /\ \A i \in 1..3 : FEq(r[i], Fin(0))

NoMatrix == <<0, 0, 0, 0>>

NoMinimizer == [par |-> Fin(0), err |-> Fin(0), lo |-> Fin(0), hi |-> Fin(0),
                fcn |-> FALSE, evals |-> 0]

\* ------------------------------------------------- BetaFinder.__init__
\* a channel with no field (Bz = 0 everywhere) or with a uniform field of 1 T
Periods == {RoundBF(4 + 3 * j, 4) : j \in 0..MaxPeriodIdx}

Fields == [bz : {0, 1}, period : Periods]

\* BetaFinder(field, momentum) takes any float: nothing checks its sign
Momenta == {-1} \cup (1..MaxMomentum)

\* CoilFitter.__init__ and the caller's set-up (scan): the coils, each
\* attribute at 1, and the first n of the fit parameters of scan
AttrNames == {"current_density", "length", "zcentre"}

AllFitParams ==
  << [name |-> "current_density", seed |-> 1, is_fixed |-> FALSE],
     [name |-> "length", seed |-> 1, is_fixed |-> FALSE],
     [name |-> "zcentre", seed |-> 1, is_fixed |-> FALSE] >>

NoCoilMinimizer == [id |-> 0, par |-> <<>>, fcn |-> FALSE, evals |-> 0]

\* A run works with one of the two objects: a BetaFinder (pc starts at
\* "idle") or a CoilFitter (pc starts at "cf_idle"), the other one left
\* as constructed and never called.
Init ==
  /\ \/ /\ pc = "idle"
        /\ field_model \in Fields
        /\ momentum \in Momenta
        /\ coil_list = <<>>
        /\ fit_params = <<>>
     \/ /\ pc = "cf_idle"
        /\ field_model = [bz |-> 0, period |-> RoundBF(4, 4)]
        /\ momentum = 1
        /\ \E n \in 1..MaxCoils : coil_list = [c \in 1..n |-> [a \in AttrNames |-> 1]]
        /\ \E n \in 1..MaxFitParams : fit_params = SubSeq(AllFitParams, 1, n)
  /\ output_dir = "unset"
  /\ iteration = 0
  /\ cf_minuit = NoCoilMinimizer
  /\ my_self = "None"
  /\ param_reads = <<>>
  /\ period = field_model.period
  /\ hmax = period
  /\ verbose = 0
  /\ q = 1
  /\ op = "none"
  /\ args = <<>>
  /\ nops = 0
  /\ m2d = NoMatrix
  /\ larmor_angle = 0
  /\ cosmu = 0
  /\ sinmu = Fin(0)
  /\ ret = <<>>
  /\ nodeint = 0
  /\ odeint_opts = <<>>
  /\ nsqrt = 0
  /\ ndiv = 0
  /\ minuit = 0
  /\ mn = NoMinimizer
  /\ nsimplex = 0
  /\ evolve_call = <<>>
  /\ score = <<>>
  /\ fcn_ret = <<>>

\* ------------------------------------------- BetaFinder.matrix_derivatives
\* dM/dz and d(larmor)/dz at a point of field bz, each as a numerator over the
\* common denominator 400*pz: b0 = 0.3*q*bz, so b0^2/4/pz = 9*bz^2/(400*pz)
\* and b0/2/pz = 60*bz/(400*pz).  y = <<m00, m01, m10, m11, larmor>>.
MatrixDerivatives(y, bz, pz) ==
  <<400 * y[3], 400 * y[4], -9 * bz * bz * y[1], -9 * bz * bz * y[2],
    -60 * bz * MatUnit>>

MatrixDerivDen(pz) == 400 * pz

\* One step of length dz (a double) from y along MatrixDerivatives, rounded
\* to the grid.
MatrixStep(y, bz, pz, dz) ==
  LET d == MatrixDerivatives(y, bz, pz)
      step(i) == y[i] + TruncDiv(dz.v * d[i], MatrixDerivDen(pz) * Scale)
  IN <<step(1), step(2), step(3), step(4), step(5)>>

\* det(M) = 1 within DetTol, for M in units of 1/MatUnit
NearSymplectic(m) ==
  Abs(m[1] * m[4] - m[2] * m[3] - MatUnit * MatUnit) <= DetTol

Entries == -MaxEntry..MaxEntry

\* the matrices of the grid with det(M) = 1 within DetTol
SymplecticGrid == {m \in Entries \X Entries \X Entries \X Entries : NearSymplectic(m)}

\* the step ceiling without the factor 2
MxStep_NoFactor(zend, h) ==
  LET lo == IF zend.e < h.e THEN zend.e ELSE h.e
  IN (HmaxDen * zend.m * Pow2(zend.e - lo)) \div (h.m * Pow2(h.e - lo))

\* mxstep = int(zout[-1]/self.hmax*2) for a last output point zend, hmax being
\* h/HmaxDen; the quotient is taken exactly
MxStep(zend, h) ==
  LET lo == IF zend.e < h.e THEN zend.e ELSE h.e
  IN (2 * HmaxDen * zend.m * Pow2(zend.e - lo)) \div (h.m * Pow2(h.e - lo))

\* the options every odeint call is given: hmax=self.hmax, mxstep=...
OdeintOpts(zend) == <<[hmax |-> hmax, mxstep |-> MxStep(zend, hmax)]>>

\* scipy.integrate.odeint over [0, period] from the identity.  With no field
\* the right-hand side is constant along the solution and one step is exact.
\* With a field the integrator's result is any matrix of the grid that keeps
\* det(M) = 1 within the integration error; the Larmor angle has a constant
\* derivative for the uniform field.
OdeintMatrix(bz, pz, zend) ==
  LET y0 == <<MatUnit, 0, 0, MatUnit, 0>>
      one == MatrixStep(y0, bz, pz, zend)
  IN IF bz = 0 THEN {one}
     ELSE {<<m[1], m[2], m[3], m[4], one[5]>> : m \in SymplecticGrid}

\* -------------------------------------------- BetaFinder.get_beta_periodic
\* abs(cosmu) > 1, cosmu in units of 1/(2*MatUnit)
\* the test without the absolute value
IsUnstable_NoAbs(c) == c > 2 * MatUnit

IsUnstable(c) == Abs(c) > 2 * MatUnit

\* n2d = m2d - cosmu*I, in units of 1/(2*MatUnit)
N2d(m, c) == <<2 * m[1] - c, 2 * m[2], 2 * m[3], 2 * m[4] - c>>

\* numpy.linalg.det(n2d), in units of 1/(2*MatUnit)^2
DetN2d(n) == n[1] * n[4] - n[2] * n[3]

\* sinmu = numpy.linalg.det(n2d)**0.5*numpy.sign(n2d[0,1])
SinMu(n) == FMul(FSqrtMat4(DetN2d(n)), Fin(NumpySign(n[2]) * Scale))

\* math.atan2(cosmu, sinmu)
PhaseAdvance(c, sm) == MathAtan2(Sgn(c), sm)

\* n2d /= sinmu; v2d; beta, alpha, phase_advance
CourantSnyder(n, c, sm, p) ==
  LET n00 == FDiv(FromMat2(n[1]), sm)
      n01 == FDiv(FromMat2(n[2]), sm)
      n10 == FDiv(FromMat2(n[3]), sm)
      v00 == n01
      v01 == FNeg(n00)
  IN <<FMul(v00, Fin(p * Scale)), FNeg(v01), PhaseAdvance(c, sm)>>

\* zout = [0.0, self.period]; matrix = odeint(...)[-1]; larmor_angle; m2d; cosmu
GBP_Integrate ==
  /\ pc = "idle" /\ nops < MaxOps
  /\ \E y \in OdeintMatrix(field_model.bz, momentum, FromBF(period)) :
       /\ m2d' = <<y[1], y[2], y[3], y[4]>>
       /\ larmor_angle' = y[5]
       /\ cosmu' = y[1] + y[4]
  /\ op' = "get_beta_periodic"
  /\ args' = <<>>
  /\ pc' = "gbp_check"
  /\ nops' = nops + 1
  /\ nodeint' = 1
  /\ odeint_opts' = OdeintOpts(period)
  /\ nsqrt' = 0
  /\ ndiv' = 0
  /\ sinmu' = Fin(0)
  /\ ret' = <<>>
  /\ UNCHANGED <<finder, fit_state>>
  /\ UNCHANGED coil_fitter

\* if abs(cosmu) > 1: return (0.0, 0.0, 0.0)
GBP_ReturnSentinel ==
  /\ pc = "gbp_check"
  /\ IsUnstable(cosmu)
  /\ ret' = Sentinel
  /\ pc' = "done"
  /\ UNCHANGED <<finder, op, args, nops, m2d, larmor_angle, cosmu, sinmu, nodeint, odeint_opts, nsqrt,
                 ndiv, fit_state>>
  /\ UNCHANGED coil_fitter

\* n2d = m2d - cosmu*I; sinmu = det(n2d)**0.5*sign(n2d[0,1])
GBP_Sqrt ==
  /\ pc = "gbp_check"
  /\ ~IsUnstable(cosmu)
  /\ sinmu' = SinMu(N2d(m2d, cosmu))
  /\ nsqrt' = nsqrt + 1
  /\ pc' = "gbp_normalise"
  /\ UNCHANGED <<finder, op, args, nops, m2d, larmor_angle, cosmu, ret, nodeint, odeint_opts, ndiv,
                 fit_state>>
  /\ UNCHANGED coil_fitter

\* n2d /= sinmu; v2d; return beta, alpha, phase_advance
GBP_Normalise ==
  /\ pc = "gbp_normalise"
  /\ ret' = CourantSnyder(N2d(m2d, cosmu), cosmu, sinmu, momentum)
  /\ ndiv' = ndiv + 1
  /\ pc' = "done"
  /\ UNCHANGED <<finder, op, args, nops, m2d, larmor_angle, cosmu, sinmu, nodeint, odeint_opts, nsqrt,
                 fit_state>>
  /\ UNCHANGED coil_fitter

\* do_plots: beta_finder.momentum = pz, between two solves
SetMomentum ==
  /\ pc = "idle" /\ nops < MaxOps
  /\ momentum' \in Momenta \ {momentum}
  /\ UNCHANGED <<field_model, period, hmax, verbose, q, op, args, pc, nops,
                 gbp_locals, ret, nodeint, odeint_opts, fit_state>>
  /\ UNCHANGED coil_fitter

\* --------------------------------------------- BetaFinder.beta_derivatives
\* (dbeta/dz, d2beta/dz2, dphi/dz) at a point of field bz; y = <<beta, dbetadz, phi>>
BetaDerivatives(y, bz, pz) ==
  LET kappa == FDiv(FMul(Fin((15 * Scale) \div 100), Fin(bz * Scale)), Fin(pz * Scale))
      Ltwiddle == Fin(0)
      beta == y[1]
      dbetadz == y[2]
      four == Fin(4 * Scale)
      num == FAdd(FSub(FMul(dbetadz, dbetadz),
                       FMul(four, FMul(FMul(beta, beta), FMul(kappa, kappa)))),
                  FMul(four, FAdd(Fin(Scale), FMul(Ltwiddle, Ltwiddle))))
      d2betadz2 == FDiv(num, FMul(Fin(2 * Scale), beta))
      dphidz == FDiv(Fin(Scale), beta)
  IN <<dbetadz, d2betadz2, dphidz>>

\* one step of length h from y along BetaDerivatives
BetaStep(y, bz, pz, h) ==
  LET d == BetaDerivatives(y, bz, pz)
  IN <<FAdd(y[1], FMul(h, d[1])), FAdd(y[2], FMul(h, d[2])), FAdd(y[3], FMul(h, d[3]))>>

\* n steps of length h from y (each step is evaluated once, as a value)
RECURSIVE BetaSteps(_, _, _, _, _)
BetaSteps(y, bz, pz, h, n) ==
  IF n = 0 THEN y
  ELSE CHOOSE r \in {BetaSteps(x, bz, pz, h, n - 1) : x \in {BetaStep(y, bz, pz, h)}} : TRUE

\* what the integrator may hand back at the end of a span over a field that
\* is not zero: beta near or far from the initial one, a small slope, a phase
BetaDeltas == {-(Scale \div 5), 0, Scale \div 5, Scale \div 5 + 1, Scale, Scale + 1}
SlopeGrid == {-1, 0}
PhaseGrid == {Scale, 2 * Scale}

OdeintBetaEnd(y0) ==
  {<<Fin(y0[1].v + d), Fin(s), Fin(ph)>> :
      d \in {x \in BetaDeltas : y0[1].v + x > 0}, s \in SlopeGrid, ph \in PhaseGrid}

\* scipy.integrate.odeint of beta_derivatives from y0 at the points zpts
\* (a sequence of doubles, zpts[1] the start): the set of arrays it may
\* return, one row per point.  With no field the rows are computed by
\* OdeSteps steps per interval; with a field every row after the first is
\* one value of OdeintBetaEnd.
RECURSIVE BetaRows(_, _, _, _, _)
BetaRows(rows, bz, pz, zpts, i) ==
  IF i > Len(zpts) THEN rows
  ELSE LET h == FDiv(FSub(zpts[i], zpts[i - 1]), Fin(OdeSteps * Scale))
       IN BetaRows(Append(rows, BetaSteps(rows[i - 1], bz, pz, h, OdeSteps)),
                   bz, pz, zpts, i + 1)

OdeintBeta(y0, bz, pz, zpts) ==
  IF bz = 0 THEN {BetaRows(<<y0>>, bz, pz, zpts, 2)}
  ELSE {[i \in 1..Len(zpts) |-> IF i = 1 THEN y0 ELSE e] : e \in OdeintBetaEnd(y0)}

\* ------------------------------------------------------ BetaFinder.evolve
\* zout = [0.0, zout]; output = odeint(...); return output[-1]
Evolve(beta0, dbetadz0, zout, bz, pz) ==
  {out[2] : out \in OdeintBeta(<<beta0, dbetadz0, Fin(0)>>, bz, pz, <<Fin(0), zout>>)}

\* ---------------------------------------------- BetaFinder.is_not_periodic
\* a/b > num/den for doubles a, b: exact for finite a and b # 0
RatioGt(a, b, num, den) ==
  IF IsFinite(a) /\ IsFinite(b) /\ b.v # 0
  THEN (IF b.v > 0 THEN a.v * den > num * b.v ELSE a.v * den < num * b.v)
  ELSE FGt(FDiv(a, b), Fin((num * Scale) \div den))

\* the two thresholds taken as inclusive
IsNotPeriodic_NonStrict(beta0, beta1) ==
  LET d == Abs(beta0.v - beta1.v)
  IN 40 * d >= beta0.v + beta1.v \/ d >= Scale

\* abs(beta0-beta1)*2/(beta0+beta1) > 0.05 or abs(beta0-beta1) > 1
IsNotPeriodic(beta0, beta1) ==
  LET diff == FAbs(FSub(beta0, beta1))
  IN \/ RatioGt(FMul(diff, Fin(2 * Scale)), FAdd(beta0, beta1), 5, 100)
     \/ FGt(diff, Fin(Scale))

\* ----------------------------------------------- BetaFinder.score_function
\* the score with the signed difference of the two betas
ScoreOf_Signed(beta0, beta1, dbetadz) ==
  LET a == FAbs(FMul(dbetadz, Fin(100 * Scale)))
  IN FAdd(FSub(beta1, beta0), FMul(a, a))

\* score[0] = abs(beta1-beta0)+abs(dbetadz*100)**2
ScoreOf(beta0, beta1, dbetadz) ==
  LET a == FAbs(FMul(dbetadz, Fin(100 * Scale)))
  IN FAdd(FAbs(FSub(beta1, beta0)), FMul(a, a))

\* One evaluation with the minimizer's parameter 0 at par: GetParameter,
\* evolve over one period, the score written, the tuple returned.
ScoreFunction(par) ==
  \E e \in Evolve(par, Fin(0), FromBF(period), field_model.bz, momentum) :
    /\ nodeint' = nodeint + 1
    /\ odeint_opts' = OdeintOpts(period)
    /\ fcn_ret' = <<par, e[1], e[2], e[3]>>
    /\ evolve_call' = <<par, Fin(0), FromBF(period)>>
    /\ score' = <<ScoreOf(par, e[1], e[2])>>

\* ------------------------------------------------ BetaFinder.minuit_fitter
\* values the minimizer may give its parameter 0, inside its limits
ParGrid == {(39 * Scale) \div 10} \cup {20 * Scale * i : i \in 1..MaxBetaIdx}

InLimits(x, m) == FGe(x, m.lo) /\ FGe(m.hi, x)

\* a minuit_fitter that keeps the minimizer of the call before, if there is one
MF_Setup_Reuse ==
  /\ pc = "idle" /\ nops < MaxOps
  /\ \E seed \in ParGrid :
       /\ args' = <<Fin(seed)>>
       /\ mn' = IF minuit = 0
                THEN [par |-> Fin(seed), err |-> FDiv(Fin(seed), Fin(10 * Scale)),
                      lo |-> Fin(0), hi |-> Fin(MaxBeta0 * Scale), fcn |-> TRUE,
                      evals |-> 0]
                ELSE [mn EXCEPT !.evals = 0]
  /\ minuit' = IF minuit = 0 THEN 1 ELSE minuit
  /\ op' = "get_beta_periodic_minuit"
  /\ pc' = "mf_simplex"
  /\ nops' = nops + 1
  /\ nodeint' = 0
  /\ odeint_opts' = <<>>
  /\ nsimplex' = 0
  /\ ret' = <<>>
  /\ UNCHANGED <<finder, gbp_locals, evolve_call, score, fcn_ret>>
  /\ UNCHANGED coil_fitter

\* get_beta_periodic_minuit(seed_beta0) enters minuit_fitter(seed_beta0,
\* seed_beta0/10., 100.0, 500, 1e-5): a fresh TMinuit, SetPrintLevel,
\* DefineParameter(0, "beta0", seed, err, 0.0, max_beta0), SetFCN
MF_Setup ==
  /\ pc = "idle" /\ nops < MaxOps
  /\ \E seed \in ParGrid :
       /\ args' = <<Fin(seed)>>
       /\ mn' = [par |-> Fin(seed), err |-> FDiv(Fin(seed), Fin(10 * Scale)),
                 lo |-> Fin(0), hi |-> Fin(MaxBeta0 * Scale), fcn |-> TRUE, evals |-> 0]
  /\ minuit' = minuit + 1
  /\ op' = "get_beta_periodic_minuit"
  /\ pc' = "mf_simplex"
  /\ nops' = nops + 1
  /\ nodeint' = 0
  /\ odeint_opts' = <<>>
  /\ nsimplex' = 0
  /\ ret' = <<>>
  /\ UNCHANGED <<finder, gbp_locals, evolve_call, score, fcn_ret>>
  /\ UNCHANGED coil_fitter

\* Command("SIMPLEX ..."): the minimizer moves parameter 0 inside its limits
\* and calls the registered objective
MF_SimplexEval ==
  /\ pc = "mf_simplex"
  /\ mn.fcn
  /\ mn.evals < MaxEvals
  /\ \E x \in ParGrid :
       /\ InLimits(Fin(x), mn)
       /\ mn' = [mn EXCEPT !.par = Fin(x), !.evals = @ + 1]
       /\ ScoreFunction(Fin(x))
  /\ UNCHANGED <<finder, op, args, pc, nops, gbp_locals, ret, minuit, nsimplex>>
  /\ UNCHANGED coil_fitter

\* Command returns: the minimizer stops and leaves parameter 0 at a value of
\* its choice inside the limits; no status is read.  What its evaluations
\* returned and wrote stayed inside the minimizer.
MF_SimplexEnd ==
  /\ pc = "mf_simplex"
  /\ mn.evals >= 1
  /\ \E x \in ParGrid :
       /\ InLimits(Fin(x), mn)
       /\ mn' = [mn EXCEPT !.par = Fin(x), !.evals = 0]
  /\ nsimplex' = nsimplex + 1
  /\ pc' = "mf_final"
  /\ evolve_call' = <<>>
  /\ score' = <<>>
  /\ fcn_ret' = <<>>
  /\ UNCHANGED <<finder, op, args, nops, gbp_locals, ret, nodeint, odeint_opts, minuit>>
  /\ UNCHANGED coil_fitter

\* a last evaluation made at the seed instead of the minimizer's parameter
MF_FinalEval_AtSeed ==
  /\ pc = "mf_final"
  /\ pc' = "gbpm_check"
  /\ ScoreFunction(args[1])
  /\ UNCHANGED <<finder, op, args, nops, gbp_locals, ret, minuit, mn, nsimplex>>
  /\ UNCHANGED coil_fitter

\* beta0 = self.score_function(0, 0, [0], 0, 0); return beta0
MF_FinalEval ==
  /\ pc = "mf_final"
  /\ pc' = "gbpm_check"
  /\ ScoreFunction(mn.par)
  /\ UNCHANGED <<finder, op, args, nops, gbp_locals, ret, minuit, mn, nsimplex>>
  /\ UNCHANGED coil_fitter

\* ------------------------------------- BetaFinder.get_beta_periodic_minuit
\* if self.is_not_periodic(beta0, beta1): return 0.0, 0.0, 0.0
\* return beta1, dbetadz, phi
\* the return without the periodicity check
GbpmResult_NoCheck(f) == <<f[2], f[3], f[4]>>

GbpmResult(f) ==
  IF IsNotPeriodic(f[1], f[2]) THEN Sentinel ELSE <<f[2], f[3], f[4]>>

\* a return that runs SIMPLEX once more when the result is not periodic
GBPM_Return_Retry ==
  /\ pc = "gbpm_check"
  /\ IF IsNotPeriodic(fcn_ret[1], fcn_ret[2]) /\ nsimplex < 2
     THEN /\ pc' = "mf_simplex"
          /\ UNCHANGED ret
     ELSE /\ pc' = "done"
          /\ ret' = GbpmResult(fcn_ret)
  /\ UNCHANGED <<finder, op, args, nops, gbp_locals, nodeint, odeint_opts, fit_state>>
  /\ UNCHANGED coil_fitter

\* beta0, beta1, dbetadz, phi = self.minuit_fitter(...); print; check; return
GBPM_Return ==
  /\ pc = "gbpm_check"
  /\ ret' = GbpmResult(fcn_ret)
  /\ pc' = "done"
  /\ UNCHANGED <<finder, op, args, nops, gbp_locals, nodeint, odeint_opts, fit_state>>
  /\ UNCHANGED coil_fitter

\* ---------------------------------------------- BetaFinder.propagate_beta
\* z_list = [self.period*i/float(n_points-1) for i in range(n_points)]
ZList(per, n_points) ==
  [i \in 1..n_points |-> BFDivInt(BFMulInt(per, i - 1), n_points - 1)]

\* column c of the array odeint returns
Column(out, c) == [i \in 1..Len(out) |-> out[i][c]]

\* the beta0 propagate_beta is called with: nothing checks that it is positive
StartGrid == ParGrid \cup {0}

\* z_list; out = odeint(...); beta_list, dbetadz_list, phi_list; return
PropagateBeta ==
  /\ pc = "idle" /\ nops < MaxOps
  /\ \E b \in StartGrid, s \in SlopeGrid, n_points \in 2..MaxPoints :
       LET z_list == ZList(period, n_points)
           zpts == [i \in 1..n_points |-> FromBF(z_list[i])]
       IN /\ args' = <<Fin(b), Fin(s), n_points>>
          /\ odeint_opts' = OdeintOpts(z_list[n_points])
          /\ \E out \in OdeintBeta(<<Fin(b), Fin(s), Fin(0)>>, field_model.bz, momentum, zpts) :
               ret' = <<z_list, Column(out, 1), Column(out, 2), Column(out, 3)>>
  /\ op' = "propagate_beta"
  /\ pc' = "done"
  /\ nops' = nops + 1
  /\ nodeint' = 1
  /\ UNCHANGED <<finder, gbp_locals, fit_state>>
  /\ UNCHANGED coil_fitter

\* The caller takes the returned value (do_plots: beta_list.append(beta), ...)
\* and the locals of the finished call are gone.
Release ==
  /\ pc = "done"
  /\ pc' = "idle"
  /\ op' = "none"
  /\ args' = <<>>
  /\ m2d' = NoMatrix
  /\ larmor_angle' = 0
  /\ cosmu' = 0
  /\ sinmu' = Fin(0)
  /\ ret' = <<>>
  /\ nodeint' = 0
  /\ odeint_opts' = <<>>
  /\ nsqrt' = 0
  /\ ndiv' = 0
  /\ nsimplex' = 0
  /\ evolve_call' = <<>>
  /\ score' = <<>>
  /\ fcn_ret' = <<>>
  /\ UNCHANGED <<finder, nops, minuit, mn>>
  /\ UNCHANGED coil_fitter

\* ------------------------------------------------ CoilFitter.get_scan_values
\* the ends a scan variable may have: multiples of 1/4
ScanEnds == {RoundBF(k, 4) : k \in 0..MaxScanEnd}

\* abs(maximum - minimum) < 1e-12
ScanIsDegenerate(var) == BFSub(var.maximum, var.minimum).m = 0

\* the double nearest to 0.1
BFTenth == RoundBF(1, 10)

\* value_list and bin_list for var = [minimum, maximum, n_steps]
GetScanValuesOf(var) ==
  IF var.n_steps = 1
  THEN LET value_list == <<BFHalf(BFAdd(var.maximum, var.minimum))>>
           tenth == BFMul(BFAbs(var.maximum), BFTenth)
           bin_list == IF ScanIsDegenerate(var)
                       THEN <<BFSub(var.maximum, tenth), BFAdd(var.maximum, tenth)>>
                       ELSE <<var.minimum, var.maximum>>
       IN <<value_list, bin_list>>
  ELSE LET delta == BFDivInt(BFSub(var.maximum, var.minimum), var.n_steps - 1)
           value_list == [index \in 1..var.n_steps |->
                            BFAdd(BFMulInt(delta, index - 1), var.minimum)]
           bins == [i \in 1..var.n_steps |-> BFSub(value_list[i], BFHalf(delta))]
           bin_list == Append(bins, BFAdd(bins[var.n_steps], delta))
       IN <<value_list, bin_list>>

GetScanValues ==
  /\ pc = "cf_idle" /\ nops < MaxOps
  /\ \E lo \in ScanEnds, hi \in ScanEnds, n \in 1..MaxSteps :
       /\ ~BFLess(hi, lo)
       /\ args' = <<[minimum |-> lo, maximum |-> hi, n_steps |-> n]>>
       /\ ret' = GetScanValuesOf([minimum |-> lo, maximum |-> hi, n_steps |-> n])
  /\ op' = "get_scan_values"
  /\ pc' = "cf_done"
  /\ nops' = nops + 1
  /\ UNCHANGED <<finder, gbp_locals, nodeint, odeint_opts, fit_state, coil_fitter>>

\* ------------------------------------------------- CoilFitter.get_plot_value
\* var['minimum'] and var['maximum']: the key missing, None, or a number
PlotLimits ==
  {[k |-> "undefined", v |-> 0], [k |-> "None", v |-> 0]}
    \cup {[k |-> "num", v |-> x] : x \in 0..MaxParValue}

\* the value of the plot variable: abs() of the current density, else the
\* attribute of the coil
PlotAttribute(coil, parameter) ==
  IF parameter = "current_density" THEN Abs(coil[parameter]) ELSE coil[parameter]

\* The outcome is kept as [raised, value]: the exception raised, or "none"
\* and the value returned.
\* Both tests are "key in var and value < var[key]": with the key present and
\* None the comparison of a float with None raises TypeError.
GetPlotValueOf(value, var) ==
  IF var.minimum.k = "None" THEN [raised |-> "TypeError", value |-> 0]
  ELSE LET v1 == IF var.minimum.k = "num" /\ value < var.minimum.v
                 THEN var.minimum.v ELSE value
       IN IF var.maximum.k = "None" THEN [raised |-> "TypeError", value |-> 0]
          ELSE [raised |-> "none",
                value |-> IF var.maximum.k = "num" /\ v1 > var.maximum.v
                          THEN var.maximum.v ELSE v1]

GetPlotValue ==
  /\ pc = "cf_idle" /\ nops < MaxOps
  /\ \E c \in DOMAIN coil_list, a \in AttrNames, lo \in PlotLimits, hi \in PlotLimits :
       LET var == [coil |-> c, parameter |-> a, minimum |-> lo, maximum |-> hi]
           r == GetPlotValueOf(PlotAttribute(coil_list[c], a), var)
       IN /\ args' = <<var>>
          /\ ret' = <<r>>
          /\ pc' = IF r.raised = "none" THEN "cf_done" ELSE "cf_raised"
  /\ op' = "get_plot_value"
  /\ nops' = nops + 1
  /\ UNCHANGED <<finder, gbp_locals, nodeint, odeint_opts, fit_state, coil_fitter>>

\* ------------------------------------------------------ CoilFitter.fit_coil
\* the loops over coil_list and enumerate(fit_params): pass c defines
\* parameter i for i = 0 .. len(fit_params)-1, over what the pass before left
RECURSIVE DefineParameters(_, _, _, _)
DefineParameters(par, fp, ncoils, c) ==
  IF c > ncoils THEN par
  ELSE LET mine == 0..(Len(fp) - 1)
           def == [i \in (DOMAIN par) \cup mine |->
                     IF i \in mine
                     THEN [name |-> fp[i + 1].name, value |-> fp[i + 1].seed,
                           is_fixed |-> fp[i + 1].is_fixed, coil |-> c]
                     ELSE par[i]]
       IN DefineParameters(def, fp, ncoils, c + 1)

\* TMinuit.GetParameter: the value of a defined parameter, 0.0 for an index
\* no DefineParameter call has named
GetParameter(par, index) == IF index \in DOMAIN par THEN par[index].value ELSE 0

\* set_magnets: param_index counts up across the coils and the fit parameters
ParamIndex(c, j, fp) == (c - 1) * Len(fp) + (j - 1)

SetMagnetsCoils(coils, fp, par) ==
  [c \in DOMAIN coils |->
     [a \in AttrNames |->
        IF \E j \in 1..Len(fp) : fp[j].name = a
        THEN GetParameter(par, ParamIndex(c, CHOOSE j \in 1..Len(fp) : fp[j].name = a, fp))
        ELSE coils[c][a]]]

SetMagnetsReads(coils, fp) ==
  [k \in 1..(Len(coils) * Len(fp)) |->
     [coil |-> ((k - 1) \div Len(fp)) + 1,
      name |-> fp[((k - 1) % Len(fp)) + 1].name,
      index |-> k - 1]]

\* CoilFitter.score_function: iteration += 1; set_magnets(); the score itself
\* (compare_magnets, physicality_penalty) is not kept
ScoreMethod(par) ==
  /\ iteration' = iteration + 1
  /\ coil_list' = SetMagnetsCoils(coil_list, fit_params, par)
  /\ param_reads' = SetMagnetsReads(coil_list, fit_params)

\* the caller's fitter.output_dir = output_dir (scan)
SetOutputDir ==
  /\ pc = "cf_idle" /\ output_dir = "unset"
  /\ output_dir' = "dir"
  /\ UNCHANGED <<finder, op, args, pc, nops, gbp_locals, ret, nodeint, odeint_opts, fit_state,
                 coil_list, fit_params, iteration, cf_minuit, my_self, param_reads>>

\* fit_coil up to SetFCN: a new minimizer, its parameters defined, my_self set
FC_Setup ==
  /\ pc = "cf_idle" /\ nops < MaxOps
  /\ iteration' = 0
  /\ cf_minuit' = [id |-> cf_minuit.id + 1,
                   par |-> DefineParameters(<<>>, fit_params, Len(coil_list), 1),
                   fcn |-> TRUE, evals |-> 0]
  /\ my_self' = "self"
  /\ op' = "fit_coil"
  /\ args' = <<>>
  /\ ret' = <<>>
  /\ pc' = "fc_simplex"
  /\ nops' = nops + 1
  /\ UNCHANGED <<finder, gbp_locals, nodeint, odeint_opts, fit_state,
                 coil_list, fit_params, output_dir, param_reads>>

\* SIMPLEX moves one free parameter and calls the module-level score_function,
\* which calls my_self.score_function
FC_ScoreCallback ==
  /\ pc = "fc_simplex" /\ cf_minuit.fcn /\ cf_minuit.evals < MaxEvals
  /\ \E i \in DOMAIN cf_minuit.par, v \in 1..MaxParValue :
       LET par == IF cf_minuit.par[i].is_fixed THEN cf_minuit.par
                  ELSE [cf_minuit.par EXCEPT ![i].value = v]
       IN IF my_self = "None"
          THEN /\ pc' = "cf_raised"
               /\ ret' = <<[raised |-> "AttributeError", value |-> 0]>>
               /\ UNCHANGED <<coil_list, iteration, cf_minuit, param_reads>>
          ELSE /\ cf_minuit' = [cf_minuit EXCEPT !.par = par, !.evals = @ + 1]
               /\ ScoreMethod(par)
               /\ UNCHANGED <<pc, ret>>
  /\ UNCHANGED <<finder, op, args, nops, gbp_locals, nodeint, odeint_opts, fit_state,
                 fit_params, output_dir, my_self>>

\* Command("SIMPLEX ...") returns; print_coil_params(); save_coil_params(
\* os.path.join(self.output_dir, ...)), which calls self.score_function() and
\* opens the file; my_self = None.  Reading a missing output_dir raises
\* AttributeError, a failing open raises OSError: the lines after it are not
\* run.
FC_Finish ==
  /\ pc = "fc_simplex"
  /\ IF output_dir = "unset"
     THEN /\ pc' = "cf_raised"
          /\ ret' = <<[raised |-> "AttributeError", value |-> 0]>>
          /\ UNCHANGED <<coil_list, iteration, my_self, param_reads>>
     ELSE /\ ScoreMethod(cf_minuit.par)
          /\ \E opened \in BOOLEAN :
               IF opened
               THEN /\ my_self' = "None"
                    /\ pc' = "cf_done"
                    /\ ret' = <<[raised |-> "none", value |-> 0]>>
               ELSE /\ pc' = "cf_raised"
                    /\ ret' = <<[raised |-> "OSError", value |-> 0]>>
                    /\ UNCHANGED my_self
  /\ UNCHANGED <<finder, op, args, nops, gbp_locals, nodeint, odeint_opts, fit_state,
                 fit_params, output_dir, cf_minuit>>

\* the caller takes the returned value
CF_Release ==
  /\ pc = "cf_done"
  /\ pc' = "cf_idle"
  /\ op' = "none"
  /\ args' = <<>>
  /\ ret' = <<>>
  /\ UNCHANGED <<finder, nops, gbp_locals, nodeint, odeint_opts, fit_state, coil_fitter>>

Next ==
  \/ GBP_Integrate
  \/ GBP_ReturnSentinel
  \/ GBP_Sqrt
  \/ GBP_Normalise
  \/ MF_Setup
  \/ MF_SimplexEval
  \/ MF_SimplexEnd
  \/ MF_FinalEval
  \/ GBPM_Return
  \/ PropagateBeta
  \/ SetMomentum
  \/ Release
  \/ GetScanValues
  \/ GetPlotValue
  \/ SetOutputDir
  \/ FC_Setup
  \/ FC_ScoreCallback
  \/ FC_Finish
  \/ CF_Release

Spec == Init /\ [][Next]_vars

\* A call that has started runs to its return: the program is one thread, the
\* integrator has a step ceiling and SIMPLEX an iteration budget.
SolveStep ==
  \/ GBP_ReturnSentinel
  \/ GBP_Sqrt
  \/ GBP_Normalise
  \/ MF_SimplexEval
  \/ MF_SimplexEnd
  \/ MF_FinalEval
  \/ GBPM_Return

FairSpec == Spec /\ WF_vars(SolveStep)

\* -------------------------------------------------------------- properties
\* what a finished get_beta_periodic was given
GbpDone == op = "get_beta_periodic" /\ pc = "done"
GbpCosmu2 == m2d[1] + m2d[4]
GbpDetN == DetN2d(N2d(m2d, GbpCosmu2))

\* C1: for every one-period matrix with |cosmu| > 1, cosmu = (M00+M11)/2,
\* get_beta_periodic returns exactly (0.0, 0.0, 0.0), and neither the square
\* root nor the division by sinmu has been evaluated at any point of the call.
C1_UnstableReturnsSentinel ==
  (op = "get_beta_periodic" /\ pc # "idle" /\ Abs(GbpCosmu2) > 2 * MatUnit)
    => /\ nsqrt = 0 /\ ndiv = 0
       /\ pc \in {"gbp_check", "done"}
       /\ pc = "done" => ret = Sentinel

C1_Witness ==
  /\ GbpDone
  /\ GbpCosmu2 < -2 * MatUnit
  /\ ret = Sentinel

\* C2: the beta returned by get_beta_periodic is >= 0 for every matrix with
\* |cosmu| <= 1 and det(N) # 0.
C2_BetaNonNegative ==
  (GbpDone /\ Abs(GbpCosmu2) <= 2 * MatUnit /\ GbpDetN # 0)
    => FGe(ret[1], Fin(0))

\* C9: for a stable result of get_beta_periodic the phase advance mu lies in
\* (-pi, pi], mu > 0 exactly when sinmu > 0 and |mu| < pi/2 exactly when
\* cosmu > 0 (mu is the angle with cos(mu) = cosmu and sin(mu) = sinmu).
C9_PhaseIsAngleOfCosSin ==
  (GbpDone /\ ~IsSentinel(ret) /\ \A i \in 1..3 : IsFinite(ret[i]))
    => /\ ret[3].v \in -3..4
       /\ ret[3].v > 0 <=> FGt(sinmu, Fin(0))
       /\ Abs(ret[3].v) < 2 <=> GbpCosmu2 > 0

\* C3: in a channel with no field both solvers return the sentinel (the
\* one-period matrix being [[1, P/p], [0, 1]]).
C3_ZeroFieldIsUnstable ==
  (field_model.bz = 0 /\ pc = "done"
     /\ op \in {"get_beta_periodic", "get_beta_periodic_minuit"})
    => IsSentinel(ret)

\* when the finished operation had no stable periodic solution to find
NoStableSolution ==
  \/ field_model.bz = 0
  \/ /\ op = "get_beta_periodic"
     /\ \/ Abs(GbpCosmu2) >= 2 * MatUnit
        \/ GbpDetN = 0
        \/ m2d[2] = 0

RetValues ==
  IF op = "propagate_beta"
  THEN {ret[c][i] : c \in 2..4, i \in 1..args[3]}
  ELSE {ret[i] : i \in 1..3}

\* C4: whenever no stable periodic solution exists, each of the three
\* operations returns all zeros, and no NaN or infinity.
C4_SentinelWhenNoSolution ==
  (pc = "done" /\ NoStableSolution)
    => \A x \in RetValues : IsFinite(x) /\ x.v = 0

C6_PeriodicityThresholds ==
  (op = "get_beta_periodic_minuit" /\ pc = "done"
     /\ fcn_ret[1].v + fcn_ret[2].v > 0)
    => LET d == Abs(fcn_ret[2].v - fcn_ret[1].v)
           sum == fcn_ret[1].v + fcn_ret[2].v
       IN (ret = Sentinel) <=> (40 * d > sum \/ d > Scale)

\* a relative difference of exactly 0.05 with |beta1-beta0| <= 1: periodic
C6_Witness ==
  /\ op = "get_beta_periodic_minuit" /\ pc = "done"
  /\ 40 * Abs(fcn_ret[2].v - fcn_ret[1].v) = fcn_ret[1].v + fcn_ret[2].v
  /\ fcn_ret[2] # fcn_ret[1]
  /\ ret = <<fcn_ret[2], fcn_ret[3], fcn_ret[4]>>

\* C7: for n_points >= 2 propagate_beta returns four sequences of length
\* n_points with z[0] = 0, z[n_points-1] = period and z strictly increasing.
C7_ProfileSampling ==
  (op = "propagate_beta" /\ pc = "done")
    => LET n == args[3]
           z == ret[1]
       IN /\ \A c \in 1..4 : Len(ret[c]) = n
          /\ z[1] = BFZero
          /\ z[n] = period
          /\ \A i \in 1..(n - 1) : BFLess(z[i], z[i + 1])

\* the state of a solve
SolveState ==
  IF op \notin {"get_beta_periodic", "get_beta_periodic_minuit"} THEN "Unsolved"
  ELSE IF pc = "done" THEN (IF IsSentinel(ret) THEN "Unstable" ELSE "Stable")
  ELSE IF nodeint = 0 THEN "Unsolved"
  ELSE "Propagated"

Terminal == {"Stable", "Unstable"}

SolveOrder ==
  /\ SolveState = "Unsolved" => SolveState' \in {"Unsolved", "Propagated"}
  /\ SolveState = "Propagated" => SolveState' \in {"Propagated"} \cup Terminal
  /\ SolveState \in Terminal =>
       \/ SolveState' = SolveState /\ ret' = ret
       \/ pc' = "idle" /\ SolveState' = "Unsolved"

NoRetry ==
  /\ op = "get_beta_periodic" => nodeint = 1
  /\ op = "get_beta_periodic_minuit" =>
       /\ nsimplex <= 1
       /\ pc \in {"mf_final", "gbpm_check", "done"} => nsimplex = 1
       /\ mn.evals <= MaxEvals

\* C8: a solve by either strategy goes Unsolved -> Propagated -> Stable or
\* Unstable, never back, reaches its terminal state, and does not retry:
\* one integrator call (matrix method), one SIMPLEX run (optimizer method).
C8_SolveStateMachine ==
  /\ [][SolveOrder]_vars
  /\ [](NoRetry)
  /\ (SolveState = "Propagated") ~> (SolveState \in Terminal)

C8_Witness ==
  /\ op = "get_beta_periodic_minuit" /\ pc = "done"
  /\ SolveState = "Stable"
  /\ nsimplex = 1
  /\ nodeint = MaxEvals + 1

\* C10: every evaluation of score_function propagates over exactly one
\* period from (parameter 0, 0, 0) and writes
\* score = |beta(P)-beta(0)| + (100*beta'(P))^2, which is >= 0 and is 0 only
\* when beta(P) = beta(0) and beta'(P) = 0.
JustEvaluated ==
  /\ op = "get_beta_periodic_minuit"
  /\ \/ pc = "mf_simplex" /\ mn.evals >= 1
     \/ pc \in {"gbpm_check", "done"}

C10_ScoreFunction ==
  JustEvaluated
    => LET b0 == fcn_ret[1].v
           b1 == fcn_ret[2].v
           sl == fcn_ret[3].v
       IN /\ evolve_call = <<mn.par, Fin(0), FromBF(period)>>
          /\ fcn_ret[1] = mn.par
          /\ IsFinite(score[1])
          /\ score[1].v = Abs(b1 - b0) + MulDiv(100 * sl, 100 * sl, Scale)
          /\ score[1].v >= 0
          /\ score[1].v = 0 => (b1 = b0 /\ sl = 0)

C10_Witness ==
  /\ JustEvaluated
  /\ fcn_ret[2].v < fcn_ret[1].v
  /\ fcn_ret[3].v # 0
  /\ score[1].v > Abs(fcn_ret[2].v - fcn_ret[1].v)

\* C11: a momentum <= 0, or a beta <= 0 met by the envelope integration, is
\* reported as a failure by get_beta_periodic, evolve and propagate_beta: no
\* call returns a result with such a momentum or such a beta.
C11_PreconditionFailureIsExplicit ==
  /\ (pc = "done" /\ op \in {"get_beta_periodic", "propagate_beta"}) => momentum > 0
  /\ fcn_ret # <<>> => momentum > 0
  /\ (pc = "done" /\ op = "propagate_beta")
       => \A i \in 1..args[3] : FGt(ret[2][i], Fin(0))

\* a step of a solve: every step but the caller's assignment of the momentum
InSolve == pc # "idle" \/ pc' # "idle"

\* C12: a solve leaves field_model, period, momentum, hmax, verbose and q as
\* they were; the one attribute it writes is the minimizer handle, which
\* every minuit_fitter call replaces by a new minimizer that holds nothing of
\* the one before (its state is fixed by the call's arguments); the
\* minimizer changes in no step outside minuit_fitter.
C12_SolveIsReadOnly ==
  [][/\ InSolve => finder' = finder
     /\ (pc = "idle" /\ pc' = "mf_simplex")
          => /\ minuit' = minuit + 1
             /\ mn' = [par |-> args'[1], err |-> FDiv(args'[1], Fin(10 * Scale)),
                       lo |-> Fin(0), hi |-> Fin(MaxBeta0 * Scale), fcn |-> TRUE,
                       evals |-> 0]
     /\ (minuit' # minuit \/ mn' # mn) => op' = "get_beta_periodic_minuit"
     /\ (pc' = "idle" \/ op' # "get_beta_periodic_minuit")
          => (minuit' = minuit /\ mn' = mn)]_vars

\* a second fit has begun on the same BetaFinder: its second minimizer,
\* holding the seed of this call and no evaluation yet
C12_Witness ==
  /\ op = "get_beta_periodic_minuit" /\ pc = "mf_simplex"
  /\ minuit = 2
  /\ nops = 2
  /\ mn.evals = 0 /\ nsimplex = 0
  /\ mn.par = args[1]

\* C14: when a solution is found get_beta_periodic_minuit returns (beta at
\* z = 0, beta at z = period/2, phase advance): the first value is the
\* parameter the evaluation started from, the second the beta at the far end
\* of an integration over half a period; when none is found it returns
\* (0.0, 0.0, 0.0).
C14_DocstringReturn ==
  (op = "get_beta_periodic_minuit" /\ pc = "done")
    => IF IsNotPeriodic(fcn_ret[1], fcn_ret[2])
       THEN IsSentinel(ret)
       ELSE /\ ret[1] = fcn_ret[1]
            /\ evolve_call[3] = FDiv(FromBF(period), Fin(2 * Scale))
            /\ ret[2] = fcn_ret[2]
            /\ ret[3] = fcn_ret[4]

\* the exact value of a float, in units of 2^-16
ExactValue(x) == x.m * Pow2(x.e + 16)

ScanVar == args[1]
ScanValues == ret[1]
ScanBins == ret[2]

\* C15: for n_steps > 1 get_scan_values returns exactly n_steps values, the
\* first equal to minimum, the last equal to maximum, evenly spaced, and
\* n_steps + 1 bin edges such that each value is the midpoint of its bin; for
\* n_steps = 1 it returns the single value (minimum + maximum)/2.
C15_ScanGrid ==
  (op = "get_scan_values" /\ pc = "cf_done")
    => IF ScanVar.n_steps = 1
       THEN /\ Len(ScanValues) = 1
            /\ 2 * ExactValue(ScanValues[1])
                 = ExactValue(ScanVar.minimum) + ExactValue(ScanVar.maximum)
       ELSE /\ Len(ScanValues) = ScanVar.n_steps
            /\ Len(ScanBins) = ScanVar.n_steps + 1
            /\ ScanValues[1] = ScanVar.minimum
            /\ ScanValues[ScanVar.n_steps] = ScanVar.maximum
            /\ \A i \in 1..(ScanVar.n_steps - 1) :
                 ExactValue(ScanValues[i + 1]) - ExactValue(ScanValues[i])
                   = ExactValue(ScanValues[2]) - ExactValue(ScanValues[1])
            /\ \A i \in 1..ScanVar.n_steps :
                 2 * ExactValue(ScanValues[i])
                   = ExactValue(ScanBins[i]) + ExactValue(ScanBins[i + 1])

PlotVar == args[1]

\* the value get_plot_value starts from
PlotInput == PlotAttribute(coil_list[PlotVar.coil], PlotVar.parameter)

\* a limit that is None or not defined is no limit
HasLimit(l) == l.k = "num"

\* C16: get_plot_value clamps the value to var['minimum'] and var['maximum'];
\* a limit that is None or not defined is ignored, and no exception is raised.
C16_PlotClamp ==
  (op = "get_plot_value" /\ pc \in {"cf_done", "cf_raised"})
    => /\ ret[1].raised = "none"
       /\ LET v1 == IF HasLimit(PlotVar.minimum) /\ PlotInput < PlotVar.minimum.v
                    THEN PlotVar.minimum.v ELSE PlotInput
          IN ret[1].value = IF HasLimit(PlotVar.maximum) /\ v1 > PlotVar.maximum.v
                         THEN PlotVar.maximum.v ELSE v1

\* C17: minuit_fitter goes in this order: a new minimizer with parameter 0
\* defined at the seed inside [0, max_beta0] and the objective registered;
\* the SIMPLEX run, whose evaluations are the only steps before it ends; then
\* exactly one more evaluation, made at the parameter the minimizer holds
\* after the run, whose (beta0, beta1, dbetadz, phi) is what is returned; the
\* minimizer is not touched or asked again, and the return is reached
\* whatever the run did.
C17_MinuitFitterOrder ==
  [][/\ (pc = "idle" /\ pc' = "mf_simplex")
          => /\ minuit' = minuit + 1
             /\ mn'.par = args'[1] /\ mn'.lo = Fin(0) /\ mn'.hi = Fin(MaxBeta0 * Scale)
             /\ mn'.fcn
             /\ nodeint' = 0 /\ nsimplex' = 0
     /\ pc = "mf_simplex"
          => /\ pc' \in {"mf_simplex", "mf_final"}
             /\ mn.fcn
             /\ minuit' = minuit
             /\ pc' = "mf_simplex" => (nodeint' = nodeint + 1 /\ nsimplex' = nsimplex)
             /\ pc' = "mf_final" => (nodeint' = nodeint /\ nsimplex' = nsimplex + 1)
     /\ pc = "mf_final"
          => /\ pc' = "gbpm_check"
             /\ nsimplex = 1 /\ nsimplex' = 1
             /\ nodeint' = nodeint + 1
             /\ mn' = mn /\ minuit' = minuit
             /\ fcn_ret'[1] = mn.par
             /\ evolve_call' = <<mn.par, Fin(0), FromBF(period)>>
     /\ pc = "gbpm_check"
          => /\ pc' = "done"
             /\ nodeint' = nodeint /\ fcn_ret' = fcn_ret /\ evolve_call' = evolve_call
             /\ mn' = mn /\ minuit' = minuit /\ nsimplex' = nsimplex
     /\ pc' = "mf_final" => pc = "mf_simplex"
     /\ pc' = "gbpm_check" => pc = "mf_final"]_vars

\* the last evaluation has been made, at a parameter that is not the seed
C17_Witness ==
  /\ op = "get_beta_periodic_minuit" /\ pc = "gbpm_check"
  /\ mn.par # args[1]
  /\ fcn_ret[1] = mn.par
  /\ nodeint = 2 /\ nsimplex = 1

\* a fit_coil call is in progress: entered, and neither returned nor raised
FitCoilRunning == op = "fit_coil" /\ pc = "fc_simplex"

\* C18: whenever the minimizer can invoke the module-level score_function,
\* my_self is the CoilFitter whose fit_coil is running; whenever no fit_coil
\* call is in progress, before the first call and after every call, my_self
\* is None.
C18_MySelfHandle ==
  /\ FitCoilRunning => (cf_minuit.fcn /\ my_self = "self")
  /\ ~FitCoilRunning => my_self = "None"

\* C19: the indices set_magnets reads are 0 .. len(coil_list)*len(fit_params)-1,
\* each of them a parameter fit_coil defined, and the parameter read for a
\* coil and a fit parameter is the one fit_coil defined for that coil and that
\* fit parameter.
C19_ParameterIndices ==
  param_reads # <<>>
    => /\ {param_reads[k].index : k \in DOMAIN param_reads}
            = 0..(Len(coil_list) * Len(fit_params) - 1)
       /\ \A k \in DOMAIN param_reads :
            LET r == param_reads[k]
            IN /\ r.index \in DOMAIN cf_minuit.par
               /\ cf_minuit.par[r.index].coil = r.coil
               /\ cf_minuit.par[r.index].name = r.name

\* the last output point of the integration whose options are recorded
OdeintEnd ==
  IF op = "propagate_beta" THEN ZList(period, args[3])[args[3]] ELSE period

\* a float in units of 2^-6
Sixtyfourths(x) == x.m * Pow2(x.e + 6)

\* C20: hmax is period*1e-4 as set at construction; each of the three
\* integrations is given that hmax and the step ceiling floor(2*zend/hmax) for
\* its last output point zend, which is at least period/hmax when zend is the
\* period.
C20_StepCeiling ==
  /\ hmax = field_model.period /\ period = field_model.period
  /\ odeint_opts # <<>>
       => LET o == odeint_opts[1]
              z == Sixtyfourths(OdeintEnd)
              h == Sixtyfourths(hmax)
          IN /\ o.hmax = hmax
             /\ o.mxstep * h <= 2 * HmaxDen * z
             /\ 2 * HmaxDen * z < (o.mxstep + 1) * h
             /\ OdeintEnd = period => (o.mxstep = 2 * HmaxDen /\ o.mxstep >= HmaxDen)
  /\ (pc \in {"gbp_check", "gbp_normalise", "gbpm_check"}
        \/ (pc = "done" /\ op \in {"get_beta_periodic", "propagate_beta",
                                   "get_beta_periodic_minuit"}))
       => odeint_opts # <<>>

\* get_beta_periodic has integrated over a period of 1.75 m with hmax =
\* 1.75e-4 m and a ceiling of 20000 steps
C20_Witness ==
  /\ op = "get_beta_periodic" /\ pc = "gbp_check"
  /\ period = RoundBF(7, 4)
  /\ odeint_opts = <<[hmax |-> RoundBF(7, 4), mxstep |-> 2 * HmaxDen]>>

====
